---- MODULE Spec2Model ----
(***************************************************************************)
(* Device selection and swapchain lifecycle of the vulkan-rt renderer.     *)
(*                                                                         *)
(*   Spec        SwapchainContext (src/vulkan/context/src/swapchain.cpp):  *)
(*               acquire_next / present / check_and_recreate_swapchain     *)
(*               driven by one caller thread against a surface that the    *)
(*               windowing system may change at any time.                  *)
(*   FairSpec    the same machine with the fairness of a running call.     *)
(*   SpecDevice  DeviceContext::create (src/vulkan/context/src/device.cpp)  *)
(*               over every enumeration of up to MaxDevices devices.        *)
(*   SpecCycle   Cycle<T> (src/vulkan/util/include/vulkan/util/cycle.hpp)    *)
(*               over every Cycle of up to MaxSlots items.                  *)
(*   SpecApp     App::draw_frame (src/project/main/src/app.cpp) in a loop,  *)
(*               with the swapchain machine and a graphics queue that       *)
(*               finishes submissions in its own time.                      *)
(*   SpecAppEvents  the same loop with the events of its pump and ~App, on  *)
(*               a surface that stays as it is.                             *)
(*   SpecError   Error::forward and Error::chain                            *)
(*               (src/lib/common/include/common/util/error.hpp).            *)
(*   SpecExtentTracker  ExtentTracker (src/vulkan/util/src/extent-tracker.cpp). *)
(***************************************************************************)
EXTENDS Integers, Sequences, FiniteSets, TLC

VARIABLES
    \* SwapchainContext members fixed by SwapchainContext::create
    sharing_mode, queue_family_indices, surface_format, present_mode,
    \* SwapchainContext::state, the variant <monostate, RuntimeState, InvalidatedState>
    state,
    \* what the physical device reports for the surface right now
    surface,
    \* the calling thread: where it is, the timeout and the signal semaphore of
    \* the running acquire_next, and what the last finished call returned
    pc, timeout, semaphore, ret,
    \* history: what the last program step did, and counts since the last invalidation
    trace, hist,
    \* DeviceContext::create: the devices the instance enumerates, and the result
    phy_devices, device_context,
    \* a Cycle<T>: its member items, and the current() before the last cycle()
    items, before,
    \* App: its three Cycle members, the draw fences (signaled or not), the
    \* submissions the graphics queue has not finished, where draw_frame is, and
    \* what the running frame has done so far
    command_buffers, sync_primitives, render_resources, fences, submissions,
    app_pc, app_hist,
    \* an Error, and what it was made of: the root error, the error it was last
    \* forwarded from, the contexts given to forward() so far
    err, forwarded,
    \* an ExtentTracker, and the extents given to it: the one it held before the
    \* latest update() and the one of the latest update()
    tracker, updates

vars == <<sharing_mode, queue_family_indices, surface_format, present_mode,
          state, surface, pc, timeout, semaphore, ret, trace, hist, phy_devices,
          device_context,
          items, before, command_buffers, sync_primitives, render_resources,
          fences, submissions, app_pc, app_hist, err, forwarded, tracker, updates>>

cycle_vars == <<items, before>>

error_vars == <<err, forwarded>>

tracker_vars == <<tracker, updates>>

\* the utility objects, which no context touches
util_vars == <<cycle_vars, error_vars, tracker_vars>>

app_vars == <<command_buffers, sync_primitives, render_resources, fences,
              submissions, app_pc, app_hist>>

swapchain_vars == <<sharing_mode, queue_family_indices, surface_format, present_mode,
                    state, surface, pc, timeout, semaphore, ret, trace, hist>>

device_vars == <<phy_devices, device_context>>

config_vars == <<sharing_mode, queue_family_indices, surface_format, present_mode>>

(***************************************************************************)
(* Bounds of the model.                                                    *)
(***************************************************************************)
\* history counters count up to this value and then stay ("this many or more")
CountCap == 2
\* the longest enumeration of physical devices
MaxDevices == 2
\* the most items of a Cycle
MaxSlots == 4

(***************************************************************************)
(* Values.                                                                 *)
(***************************************************************************)
NULL == 0
\* vk::raii::SwapchainKHR handles; the backend hands out the smallest free one
Handles == {1, 2}

SoftFailures == {"eErrorOutOfDateKHR", "eSuboptimalKHR"}

\* what vkAcquireNextImageKHR may answer, and what it may answer for a given
\* timeout argument: eNotReady only to a poll, eTimeout only to a finite wait
AcquireResults ==
    {"eSuccess", "eErrorOutOfDateKHR", "eSuboptimalKHR", "eErrorDeviceLost",
     "eNotReady", "eTimeout"}
NativeAcquireResults(t) ==
    {"eSuccess", "eErrorOutOfDateKHR", "eSuboptimalKHR", "eErrorDeviceLost"}
        \cup (IF t = "zero" THEN {"eNotReady"} ELSE {})
        \cup (IF t = "finite" THEN {"eTimeout"} ELSE {})

\* what vkQueuePresentKHR may answer
NativePresentResults ==
    {"eSuccess", "eErrorOutOfDateKHR", "eSuboptimalKHR", "eErrorDeviceLost"}

\* what the creation of the swapchain and of its image views may answer
CreateResults == {"eSuccess", "eErrorOutOfDeviceMemory", "eImageViewFailed"}

\* the timeout argument: 0, a finite number of nanoseconds, or UINT64_MAX (the default)
Timeouts == {"zero", "finite", "max"}

SurfaceFormat(f, c) == [format |-> f, colorSpace |-> c]
FmtBGRA == SurfaceFormat("eB8G8R8A8Srgb", "eSrgbNonlinear")
FmtRGBA == SurfaceFormat("eR8G8B8A8Srgb", "eSrgbNonlinear")
FmtUnorm == SurfaceFormat("eR8G8B8A8Unorm", "eSrgbNonlinear")

Extent2D(w, h) == [width |-> w, height |-> h]
ExtentA == Extent2D(800, 600)
ExtentB == Extent2D(1024, 768)

\* glm::u32vec2(width, height)
U32Vec2(e) == <<e.width, e.height>>

\* the surface as the physical device reports it: getSurfaceCapabilitiesKHR,
\* getSurfaceFormatsKHR, getSurfacePresentModesKHR
\* with minImageCount and maxImageCount; maxImageCount = 0 is "no limit"
SurfaceReport(e, f, m, minImageCount, maxImageCount) ==
    [currentExtent |-> e, formats |-> f, presentModes |-> m,
     minImageCount |-> minImageCount, maxImageCount |-> maxImageCount]
SurfaceReports ==
    { SurfaceReport(ExtentA, <<FmtUnorm, FmtRGBA, FmtBGRA>>, {"eFifo", "eMailbox"}, 2, 8),
      SurfaceReport(ExtentB, <<FmtUnorm, FmtRGBA, FmtBGRA>>, {"eFifo", "eMailbox"}, 2, 0),
      SurfaceReport(ExtentA, <<FmtUnorm, FmtRGBA>>, {"eFifo", "eFifoRelaxed"}, 1, 2),
      SurfaceReport(ExtentB, <<FmtUnorm, FmtRGBA>>, {"eFifo", "eFifoRelaxed"}, 4, 8) }

\* (graphics family, present family) of the DeviceContext
QueueFamilyPairs == {<<0, 0>>, <<0, 1>>}

(***************************************************************************)
(* Errors: a chain of context entries, the most recent first, the root     *)
(* last.                                                                   *)
(***************************************************************************)
ErrorMsg(message) == <<[message |-> message, result |-> "none"]>>
ErrorFrom(result) == <<[message |-> "vk::Result", result |-> result]>>
Forward(error, message) == <<[message |-> message, result |-> "none"]>> \o error
Root(error) == error[Len(error)]

(***************************************************************************)
(* SwapchainContext::create and its two selectors.                         *)
(***************************************************************************)
Min(S) == CHOOSE x \in S : \A y \in S : x <= y
Max(S) == CHOOSE x \in S : \A y \in S : y <= x

\* std::nullopt of an optional<vk::SurfaceFormatKHR>
NullOpt == SurfaceFormat("nullopt", "nullopt")

select_surface_format(available) ==
    LET preferred == <<FmtBGRA, FmtRGBA>>
        found(p) == {i \in 1..Len(available) : available[i] = p}
        hits == {k \in 1..Len(preferred) : found(preferred[k]) # {}}
    IN  IF hits # {} THEN available[Min(found(preferred[Min(hits)]))]
        ELSE IF Len(available) > 0 THEN available[1]
        ELSE NullOpt

select_present_mode(available) ==
    LET preferred == <<"eMailbox", "eFifoRelaxed">>
        hits == {k \in 1..Len(preferred) : preferred[k] \in available}
    IN  IF hits # {} THEN preferred[Min(hits)] ELSE "eFifo"

select_sharing(graphics_family, present_family) ==
    IF graphics_family = present_family
    THEN [sharing_mode |-> "eExclusive", queue_family_indices |-> <<graphics_family>>]
    ELSE [sharing_mode |-> "eConcurrent",
          queue_family_indices |-> <<graphics_family, present_family>>]

(***************************************************************************)
(* The pieces of check_and_recreate_swapchain, acquire_next and present.   *)
(***************************************************************************)
MonoState == [tag |-> "monostate"]
InvalidatedState(old_swapchain) == [tag |-> "InvalidatedState", old_swapchain |-> old_swapchain]

\* variant: the extent stored as (height, width)
RuntimeState_SwappedExtent(swapchain, currentExtent) ==
    [tag |-> "RuntimeState", swapchain |-> swapchain,
     extent |-> <<currentExtent.height, currentExtent.width>>, extent_changed |-> TRUE]

\* variant: extent_changed defaults to false
RuntimeState_FlagFalse(swapchain, currentExtent) ==
    [tag |-> "RuntimeState", swapchain |-> swapchain,
     extent |-> U32Vec2(currentExtent), extent_changed |-> FALSE]

\* RuntimeState{swapchain, extent, ...}; extent_changed takes its default, true
RuntimeState(swapchain, currentExtent) ==
    [tag |-> "RuntimeState", swapchain |-> swapchain,
     extent |-> U32Vec2(currentExtent), extent_changed |-> TRUE]

\* variant: no early return
NeedsRecreate_Always(st) == TRUE

\* check_and_recreate_swapchain returns at once when a RuntimeState is held
NeedsRecreate(st) == st.tag # "RuntimeState"

\* the handle moved out of an InvalidatedState, or nullptr
prev_swapchain(st) == IF st.tag = "InvalidatedState" THEN st.old_swapchain ELSE NULL

\* variant: the handle stays in the InvalidatedState
MovedFrom_Kept(st) == st

\* the variant once the handle has been moved out of it
MovedFrom(st) == IF st.tag = "InvalidatedState" THEN InvalidatedState(NULL) ELSE st

\* the new handle: the smallest one not alive (the previous swapchain still is)
NewHandle(alive) == Min(Handles \ alive)

\* variant: format and present mode selected again at every creation
SwapchainCreateInfo_Reselect(surf, fmt, mode, sharing, families, old) ==
    [imageFormat |-> select_surface_format(surf.formats).format,
     imageColorSpace |-> select_surface_format(surf.formats).colorSpace,
     imageExtent |-> surf.currentExtent, imageSharingMode |-> sharing,
     presentMode |-> select_present_mode(surf.presentModes),
     queueFamilyIndices |-> families, oldSwapchain |-> old,
     minImageCount |-> Min({Max({3, surf.minImageCount}), surf.maxImageCount})]

\* glm::clamp<uint32_t>(x, minVal, maxVal) = min(max(x, minVal), maxVal)
clamp(x, minVal, maxVal) == Min({Max({x, minVal}), maxVal})

image_count(surface_capability) ==
    clamp(3, surface_capability.minImageCount, surface_capability.maxImageCount)

\* vk::SwapchainCreateInfoKHR as check_and_recreate_swapchain fills it in
SwapchainCreateInfo(surf, fmt, mode, sharing, families, old) ==
    [minImageCount |-> image_count(surf),
     imageFormat |-> fmt.format, imageColorSpace |-> fmt.colorSpace,
     imageExtent |-> surf.currentExtent, imageSharingMode |-> sharing,
     presentMode |-> mode, queueFamilyIndices |-> families, oldSwapchain |-> old]

\* the part of a create info that the SurfaceLayout decides
LayoutOf(info) ==
    [imageFormat |-> info.imageFormat, imageColorSpace |-> info.imageColorSpace,
     presentMode |-> info.presentMode, imageSharingMode |-> info.imageSharingMode,
     queueFamilyIndices |-> info.queueFamilyIndices]

\* variant: suboptimal has no case of its own and is an error
OnAcquireResult_SuboptimalIsError(result) ==
    CASE result = "eSuccess" -> "frame"
      [] result = "eErrorOutOfDateKHR" -> "invalidate"
      [] OTHER -> "error"

\* variant: the default case retries as well
OnAcquireResult_ErrorRetried(result) ==
    CASE result = "eSuccess" -> "frame"
      [] OTHER -> "invalidate"

\* the switch of acquire_next over the native result
OnAcquireResult(result) ==
    CASE result = "eSuccess" -> "frame"
      [] result \in SoftFailures -> "invalidate"
      [] OTHER -> "error"

\* variant: a soft failure of present is taken for a success
OnPresentResult_SoftIgnored(result) ==
    CASE result = "eSuccess" -> "ok"
      [] result \in SoftFailures -> "ok"
      [] OTHER -> "error"

\* the switch of present over the native result
OnPresentResult(result) ==
    CASE result = "eSuccess" -> "ok"
      [] result \in SoftFailures -> "invalidate"
      [] OTHER -> "error"

\* variant: every failure of the native present invalidates
AfterPresent_ErrorInvalidates(st, result) ==
    IF result = "eSuccess" THEN st ELSE InvalidatedState(st.swapchain)

\* the state present leaves behind: invalidated by a soft failure only
AfterPresent(st, result) ==
    IF OnPresentResult(result) = "invalidate" THEN InvalidatedState(st.swapchain) ELSE st

\* variant: the flag is read and not reset
AfterAcquire_NoReset(st) == st

\* std::exchange(runtime_state.extent_changed, false): what it leaves behind
AfterAcquire(st) == [st EXCEPT !.extent_changed = FALSE]

\* Frame{extent, extent_changed, ...} as acquire_next returns it
Frame(st) == [kind |-> "Frame", op |-> "acquire_next",
              extent |-> st.extent, extent_changed |-> st.extent_changed]
ReturnError(op, error) == [kind |-> "Error", op |-> op, error |-> error]
ReturnVoid(op) == [kind |-> "void", op |-> op]
NoReturn == [kind |-> "none", op |-> "none"]

(***************************************************************************)
(* History bookkeeping (not program state).  An optional value is the      *)
(* empty sequence or a sequence of one element.                            *)
(***************************************************************************)
Sat(n) == IF n < CountCap THEN n + 1 ELSE n

NoTrace == [op |-> "none", native |-> "none", created |-> FALSE,
            createdFrom |-> "none", createResult |-> "none", createInfo |-> <<>>,
            surface_capability |-> <<>>, semaphore |-> <<>>]
Step(op, native) == [NoTrace EXCEPT !.op = op, !.native = native]

HistInit ==
    [recreations |-> 0, createFailures |-> 0, invalidatedBy |-> "none",
     softFailedInCall |-> FALSE, signalScheduled |-> FALSE, assignedInCall |-> FALSE,
     framesSinceCreate |-> 0,
     lastFrameExtent |-> <<>>, prevFrameExtent |-> <<>>,
     callsSinceInvalidated |-> 0, surfaceAtCreate |-> <<>>,
     firstLayout |-> <<>>, lastCreateInfo |-> <<>>]

Invalidated(h, by) ==
    [h EXCEPT !.recreations = 0, !.createFailures = 0, !.invalidatedBy = by,
              !.callsSinceInvalidated = 0]

(***************************************************************************)
(* Cycle<T>: items.back() is the current item, items.front() the previous. *)
(***************************************************************************)
current(c) == c[Len(c)]
prev(c) == c[1]

\* variant: the front item is moved to the back
cycle_FrontToBack(c) == SubSeq(c, 2, Len(c)) \o <<c[1]>>

\* cycle(): the back item is moved to the front
cycle(c) == <<c[Len(c)]>> \o SubSeq(c, 1, Len(c) - 1)

\* no Cycle under test
NoCycle == items = <<1>> /\ before = <<>>

(***************************************************************************)
(* Error: message, optional detail, and the cause it was forwarded from    *)
(* (a shared pointer, null in a root error).  The source location is left  *)
(* out.                                                                    *)
(***************************************************************************)
Error(message, detail) == [message |-> message, detail |-> detail, cause |-> <<>>]

\* variant: the new error takes over the cause of the old one
forward_Replace(self, message, detail) ==
    [message |-> message, detail |-> detail, cause |-> self.cause]

\* forward(message) and forward(message, detail): a new Error whose cause is a
\* copy of the forwarded one
forward(self, message, detail) ==
    [message |-> message, detail |-> detail, cause |-> <<self>>]

\* chain(): from the error along the cause pointers until the null one
RECURSIVE chain(_)
chain(e) == <<e>> \o (IF e.cause = <<>> THEN <<>> ELSE chain(e.cause[1]))

NoForwards == [root |-> <<>>, from |-> <<>>, contexts |-> <<>>]

\* no Error under test
NoError == err = Error("none", <<>>) /\ forwarded = NoForwards

(***************************************************************************)
(* ExtentTracker: two optional extents.                                    *)
(***************************************************************************)
\* ExtentTracker() = default
ExtentTracker_default == [previous_extent |-> <<>>, current_extent |-> <<>>]

\* ExtentTracker(initial_extent)
ExtentTracker(initial_extent) ==
    [previous_extent |-> <<initial_extent>>, current_extent |-> <<>>]

update(t, new_extent) ==
    [previous_extent |-> t.current_extent, current_extent |-> <<new_extent>>]

is_changed(t) ==
    IF t.previous_extent = <<>> \/ t.current_extent = <<>> THEN TRUE
    ELSE t.current_extent[1] # t.previous_extent[1]

NoUpdates == [held |-> <<>>, latest |-> <<>>]

\* no ExtentTracker under test
NoTracker == tracker = ExtentTracker_default /\ updates = NoUpdates

(***************************************************************************)
(* App::create: three command buffers, three FrameSyncPrimitive with their *)
(* fences created signaled, three FrameRenderResource of the initial size. *)
(***************************************************************************)
FrameSlots == 3
initial_size == <<800, 600>>

\* variant: the depth buffer always has the initial size
FrameRenderResource_InitialSize(swapchain_extent) ==
    [depth_buffer |-> [extent |-> initial_size]]

\* FrameRenderResource::create(context, swapchain_extent)
FrameRenderResource(swapchain_extent) == [depth_buffer |-> [extent |-> swapchain_extent]]

\* the two semaphores of a FrameSyncPrimitive
image_available_semaphore(sync) == <<"image_available_semaphore", sync>>
render_finished_semaphore(sync) == <<"render_finished_semaphore", sync>>

\* the optional signal semaphore of acquire_next, as a caller that waits for the
\* image passes it (no fence)
SemaphoreArgs == {<<image_available_semaphore(1)>>}

\* a native acquire that returns eSuccess or eSuboptimalKHR has acquired an
\* image, and the backend signals the semaphore it was given
SchedulesSignal(result) == result \in {"eSuccess", "eSuboptimalKHR"}

\* the semaphores of the frame's submission
wait_semaphores(sync) == <<image_available_semaphore(sync)>>
signal_semaphores(sync) == <<render_finished_semaphore(sync)>>

\* the events SDL_PollEvent hands out in one pump that draw_frame tells apart
Events == {"SDL_EVENT_QUIT", "SDL_EVENT_WINDOW_MINIMIZED"}

\* the members of App that own GPU objects, in declaration order
App_members ==
    <<"instance_context", "device_context", "swapchain_context", "imgui_context",
      "command_pool", "command_buffers", "pipeline", "model_buffer",
      "sync_primitives", "render_resources">>

\* members are destroyed in the reverse of their declaration order
Reverse(seq) == [k \in 1..Len(seq) |-> seq[Len(seq) + 1 - k]]

\* what a frame has done so far: the fence it waited for, the command buffer it
\* recorded (and whether an unfinished submission was using it), the fence it
\* reset, the sizes of the render resources it replaced, the events its pump
\* saw, the semaphores of its submission, the members destroyed so far; and,
\* kept from frame to frame, the fence each command buffer was last submitted
\* with
NoFrame ==
    [waited |-> <<>>, recorded |-> <<>>, reset |-> <<>>, rebuilt |-> <<>>,
     events |-> {}, quit |-> FALSE, submit |-> <<>>,
     destroyed |-> <<>>,
     last_fence |-> [k \in 1..FrameSlots |-> <<>>]]

App_create ==
    /\ command_buffers = [k \in 1..FrameSlots |-> k]
    /\ sync_primitives = [k \in 1..FrameSlots |-> k]
    /\ render_resources = [k \in 1..FrameSlots |-> FrameRenderResource(initial_size)]
    /\ fences = [k \in 1..FrameSlots |-> TRUE]
    /\ submissions = <<>>
    /\ app_pc = "draw_frame"
    /\ app_hist = NoFrame

(***************************************************************************)
(* Init: a context fresh from SwapchainContext::create, state = monostate. *)
(***************************************************************************)
NotCreated == [kind |-> "none"]

Init ==
    /\ phy_devices = <<>>
    /\ device_context = NotCreated
    /\ surface \in SurfaceReports
    /\ \E q \in QueueFamilyPairs :
         /\ sharing_mode = select_sharing(q[1], q[2]).sharing_mode
         /\ queue_family_indices = select_sharing(q[1], q[2]).queue_family_indices
    /\ surface_format = select_surface_format(surface.formats)
    /\ surface_format # NullOpt
    /\ present_mode = select_present_mode(surface.presentModes)
    /\ state = MonoState
    /\ pc = "idle"
    /\ timeout = "max"
    /\ semaphore = <<>>
    /\ ret = NoReturn
    /\ trace = NoTrace
    /\ hist = HistInit
    /\ NoCycle
    /\ App_create
    /\ NoError
    /\ NoTracker

(***************************************************************************)
(* acquire_next: the call, then the loop body in its two backend calls.    *)
(***************************************************************************)
acquire_next(sem, t) ==
    /\ pc = "idle"
    /\ pc' = "check_and_recreate_swapchain"
    /\ timeout' = t
    /\ semaphore' = sem
    /\ ret' = NoReturn
    /\ trace' = Step("acquire_next", "none")
    /\ hist' = [hist EXCEPT !.softFailedInCall = FALSE, !.signalScheduled = FALSE,
                          !.assignedInCall = FALSE,
                          !.callsSinceInvalidated = Sat(@)]
    /\ UNCHANGED <<util_vars, app_vars, device_vars, config_vars, state, surface>>

check_and_recreate_swapchain(result) ==
    /\ pc = "check_and_recreate_swapchain"
    /\ IF ~NeedsRecreate(state)
       THEN /\ result = "eSuccess"
            /\ pc' = "acquireNextImage"
            /\ trace' = Step("check_and_recreate_swapchain", "none")
            /\ UNCHANGED <<state, ret, timeout, semaphore, hist>>
       ELSE LET previous == prev_swapchain(state)
                info == SwapchainCreateInfo(surface, surface_format, present_mode,
                                            sharing_mode, queue_family_indices, previous)
                tr == [Step("check_and_recreate_swapchain", "none") EXCEPT
                         !.created = TRUE, !.createdFrom = state.tag,
                         !.createResult = result, !.createInfo = <<info>>,
                         !.surface_capability = <<surface>>]
            IN  /\ trace' = tr
                /\ IF result = "eSuccess"
                   THEN /\ state' = RuntimeState(NewHandle({previous}), surface.currentExtent)
                        /\ pc' = "acquireNextImage"
                        /\ hist' = [hist EXCEPT
                                      !.recreations = Sat(@),
                                      !.assignedInCall = TRUE,
                                      !.surfaceAtCreate = <<surface>>,
                                      !.framesSinceCreate = 0,
                                      !.firstLayout = IF @ = <<>> THEN <<LayoutOf(info)>> ELSE @,
                                      !.lastCreateInfo = <<info>>]
                        /\ UNCHANGED <<ret, timeout, semaphore>>
                   ELSE /\ state' = MovedFrom(state)
                        /\ pc' = "idle"
                        /\ timeout' = "max"
                        /\ semaphore' = <<>>
                        /\ ret' = ReturnError("acquire_next",
                                     Forward(
                                       IF result = "eImageViewFailed"
                                       THEN Forward(Forward(ErrorFrom("eErrorOutOfHostMemory"),
                                                "Create image view for swapchain image failed"),
                                                "Create image view for swapchain image failed")
                                       ELSE Forward(ErrorFrom(result), "Create swapchain failed"),
                                       "Recreate swapchain failed"))
                        /\ hist' = [hist EXCEPT !.createFailures = Sat(@),
                                                !.signalScheduled = FALSE,
                                                !.assignedInCall = FALSE]
    /\ UNCHANGED <<util_vars, app_vars, device_vars, config_vars, surface>>

acquireNextImage(result) ==
    /\ pc = "acquireNextImage"
    /\ result \in NativeAcquireResults(timeout)
    /\ trace' = [Step("acquireNextImage", result) EXCEPT !.semaphore = semaphore]
    /\ CASE OnAcquireResult(result) = "frame" ->
              /\ ret' = Frame(state)
              /\ state' = AfterAcquire(state)
              /\ pc' = "idle"
              /\ timeout' = "max"
              /\ semaphore' = <<>>
              /\ hist' = [hist EXCEPT !.assignedInCall = FALSE,
                                      !.framesSinceCreate = Sat(@),
                                      !.prevFrameExtent = hist.lastFrameExtent,
                                      !.lastFrameExtent = state.extent]
         [] OnAcquireResult(result) = "invalidate" ->
              /\ state' = InvalidatedState(state.swapchain)
              /\ pc' = "check_and_recreate_swapchain"
              /\ hist' = [Invalidated(hist, "acquire_next") EXCEPT
                            !.softFailedInCall = TRUE,
                            !.assignedInCall = TRUE,
                            !.signalScheduled =
                                @ \/ (semaphore # <<>> /\ SchedulesSignal(result))]
              /\ UNCHANGED <<ret, timeout, semaphore>>
         [] OTHER ->
              /\ ret' = ReturnError("acquire_next", ErrorFrom(result))
              /\ pc' = "idle"
              /\ timeout' = "max"
              /\ semaphore' = <<>>
              /\ hist' = [hist EXCEPT !.signalScheduled = FALSE]
              /\ UNCHANGED state
    /\ UNCHANGED <<util_vars, app_vars, device_vars, config_vars, surface>>

(***************************************************************************)
(* present.                                                                *)
(***************************************************************************)
present(wait_semaphore, result) ==
    /\ pc = "idle"
    /\ IF state.tag # "RuntimeState"
       THEN /\ result = "eSuccess"
            /\ ret' = ReturnError("present", ErrorMsg("Present failed"))
            /\ trace' = Step("present", "none")
            /\ UNCHANGED <<state, hist>>
       ELSE /\ trace' = [Step("present", result) EXCEPT !.semaphore = <<wait_semaphore>>]
            /\ state' = AfterPresent(state, result)
            /\ CASE OnPresentResult(result) = "ok" ->
                      /\ ret' = ReturnVoid("present")
                      /\ UNCHANGED hist
                 [] OnPresentResult(result) = "invalidate" ->
                      /\ ret' = ReturnVoid("present")
                      /\ hist' = Invalidated(hist, "present")
                 [] OTHER ->
                      /\ ret' = ReturnError("present", ErrorFrom(result))
                      /\ UNCHANGED hist
    /\ UNCHANGED <<util_vars, app_vars, device_vars, config_vars, surface, pc, timeout,
                   semaphore>>

(***************************************************************************)
(* The windowing system resizes the window or moves it to another output.  *)
(***************************************************************************)
SurfaceChange ==
    /\ surface' \in SurfaceReports \ {surface}
    /\ UNCHANGED <<util_vars, app_vars, device_vars, config_vars, state, pc, timeout,
                   semaphore, ret, trace, hist>>

Next ==
    \/ \E sem \in SemaphoreArgs, t \in Timeouts : acquire_next(sem, t)
    \/ \E r \in CreateResults : check_and_recreate_swapchain(r)
    \/ \E r \in AcquireResults : acquireNextImage(r)
    \/ \E r \in NativePresentResults : present(render_finished_semaphore(1), r)
    \/ SurfaceChange

Spec == Init /\ [][Next]_vars

(***************************************************************************)
(* A running acquire_next keeps running (the thread is never stopped       *)
(* inside the loop), and the backend does not answer every native acquire  *)
(* of one call with out-of-date or suboptimal.                             *)
(***************************************************************************)
FairSpec ==
    /\ Spec
    /\ WF_vars(\E r \in CreateResults : check_and_recreate_swapchain(r))
    /\ WF_vars(\E r \in AcquireResults : acquireNextImage(r))
    /\ SF_vars(\E r \in AcquireResults \ SoftFailures : acquireNextImage(r))

(***************************************************************************)
(* DeviceContext::create.  Heap sizes are whole MiB (the size in bytes is   *)
(* the number here times 2^20), scores are the float values the code        *)
(* computes: a float holds 24 significant bits and rounds to nearest, ties  *)
(* to even.                                                                 *)
(***************************************************************************)
DeviceTypes == {"eDiscreteGpu", "eIntegratedGpu", "eCpu"}

\* device-local memory of a candidate, in MiB: 1 GiB, 8 GiB, 1 GiB + 1,000,000 MiB,
\* 1 TiB, 16 TiB + 1 MiB
LocalMemoryMiB == {1024, 8192, 1001024, 1048576, 16777217}

MemoryHeap(size, flags) == [size |-> size, flags |-> flags]

\* std::expected<T, Error>
Expected(value) == [has_value |-> TRUE, value |-> value, error |-> <<>>]
Unexpected(error) == [has_value |-> FALSE, value |-> <<>>, error |-> error]

\* Error(message, detail)
ErrorDetail(message, detail) ==
    <<[message |-> message, result |-> "none", detail |-> detail]>>

\* the fields each test_vulkan1x_features checks, in the order it checks them
required_features_vulkan10 ==
    <<"robustBufferAccess", "samplerAnisotropy", "textureCompressionBC",
      "pipelineStatisticsQuery">>
required_features_vulkan11 == <<"shaderDrawParameters">>
required_features_vulkan12 == <<"shaderFloat16">>
required_features_vulkan13 == <<"synchronization2", "dynamicRendering">>

Range(s) == {s[k] : k \in 1..Len(s)}

\* the four feature structures with exactly the required fields set
RequiredFeatures ==
    [vulkan10 |-> Range(required_features_vulkan10),
     vulkan11 |-> Range(required_features_vulkan11),
     vulkan12 |-> Range(required_features_vulkan12),
     vulkan13 |-> Range(required_features_vulkan13)]

\* a feature structure is the set of its fields that are vk::True
FeatureProfiles ==
    { RequiredFeatures,
      [RequiredFeatures EXCEPT !.vulkan10 = @ \cup {"geometryShader"},
                               !.vulkan12 = @ \cup {"bufferDeviceAddress"}],
      [RequiredFeatures EXCEPT !.vulkan10 = (@ \ {"samplerAnisotropy"}) \cup {"geometryShader"}],
      [RequiredFeatures EXCEPT !.vulkan12 = {}, !.vulkan13 = {"synchronization2"}] }

mandatory_device_extensions ==
    {"VK_KHR_swapchain", "VK_KHR_synchronization2", "VK_KHR_shader_non_semantic_info"}

get_required_extensions == mandatory_device_extensions

ExtensionProfiles ==
    { mandatory_device_extensions \cup {"VK_KHR_ray_query"},
      mandatory_device_extensions \ {"VK_KHR_synchronization2"} }

\* vk::QueueFamilyProperties::queueFlags, and what getSurfaceSupportKHR answers
\* for the family and the surface of the instance
QueueFamily(flags, support) == [queueFlags |-> flags, surfaceSupport |-> support]

RenderFlags == {"eGraphics", "eCompute", "eTransfer"}

QueueFamilyLayouts ==
    { << QueueFamily(RenderFlags, TRUE) >>,
      << QueueFamily(RenderFlags, FALSE), QueueFamily({"eTransfer"}, TRUE) >>,
      << QueueFamily({"eGraphics"}, FALSE), QueueFamily({"eCompute"}, FALSE),
         QueueFamily(RenderFlags, TRUE) >>,
      << QueueFamily({"eCompute", "eTransfer"}, TRUE), QueueFamily({"eGraphics"}, TRUE) >>,
      << QueueFamily({"eCompute", "eTransfer"}, FALSE), QueueFamily({"eGraphics"}, FALSE) >>,
      << QueueFamily({"eTransfer"}, TRUE), QueueFamily({"eCompute"}, TRUE) >>,
      << QueueFamily({"eGraphics", "eTransfer"}, TRUE) >> }

\* a physical device as its queries describe it: getProperties, getMemoryProperties,
\* getFeatures2, enumerateDeviceExtensionProperties, getQueueFamilyProperties
PhysicalDevice(name, type, local, features, extensions, families) ==
    [deviceName |-> name,
     deviceType |-> type,
     memoryHeaps |-> << MemoryHeap(local, {"eDeviceLocal"}),
                        MemoryHeap(32768, {}) >>,
     features |-> features,
     extensions |-> extensions,
     queueFamilies |-> families]

\* every type and memory size on a device that has what the code requires, and
\* an 8 GiB device varied in its features, its extensions and its queue families
PhysicalDevices ==
    { PhysicalDevice("GPU A", t, m, RequiredFeatures, mandatory_device_extensions,
                     << QueueFamily(RenderFlags, TRUE) >>) :
        t \in DeviceTypes, m \in LocalMemoryMiB }
    \cup
    { PhysicalDevice("GPU B", "eDiscreteGpu", 8192, f, mandatory_device_extensions,
                     << QueueFamily(RenderFlags, TRUE) >>) : f \in FeatureProfiles }
    \cup
    { PhysicalDevice("GPU C", t, 8192, RequiredFeatures, e,
                     << QueueFamily(RenderFlags, TRUE) >>) :
        t \in {"eIntegratedGpu", "eCpu"}, e \in ExtensionProfiles }
    \cup
    { PhysicalDevice("GPU D", "eDiscreteGpu", 8192, RequiredFeatures,
                     mandatory_device_extensions, q) : q \in QueueFamilyLayouts }
    \cup
    { PhysicalDevice("GPU E", "eDiscreteGpu", 1024, f,
                     mandatory_device_extensions \ {"VK_KHR_swapchain"},
                     << QueueFamily({"eTransfer"}, FALSE) >>) :
        f \in FeatureProfiles }

RECURSIVE SeqsUpTo(_, _)
SeqsUpTo(S, n) ==
    IF n = 0 THEN {<<>>}
    ELSE LET shorter == SeqsUpTo(S, n - 1)
         IN  shorter \cup {Append(q, x) : q \in shorter, x \in S}

RECURSIVE FloorPow2(_)
FloorPow2(n) == IF n < 2 THEN 1 ELSE 2 * FloorPow2(n \div 2)

\* static_cast<float> of a non-negative integer
ToFloat(n) ==
    IF n < 2^24 THEN n
    ELSE LET ulp == FloorPow2(n) \div 2^23
             q == n \div ulp
             r == n % ulp
         IN  IF 2 * r > ulp \/ (2 * r = ulp /\ q % 2 = 1) THEN (q + 1) * ulp ELSE q * ulp

RECURSIVE SumSizes(_)
SumSizes(heaps) == IF heaps = <<>> THEN 0 ELSE heaps[1].size + SumSizes(Tail(heaps))

is_device_local(heap) == "eDeviceLocal" \in heap.flags

rank_device_by_type(dev) ==
    CASE dev.deviceType = "eDiscreteGpu" -> 2000000
      [] dev.deviceType = "eIntegratedGpu" -> 1000000
      [] OTHER -> 0

\* float(total bytes of the device-local heaps) / (1024 * 1024)
rank_device_by_memory(dev) ==
    ToFloat(SumSizes(SelectSeq(dev.memoryHeaps, is_device_local)))

rank_device(dev) == ToFloat(rank_device_by_type(dev) + rank_device_by_memory(dev))

\* CHECK_FIELD over the fields of one structure, in order: the Error of the first
\* field that is vk::False, or the structure with exactly the checked fields set
CHECK_FIELDS(available, fields) ==
    LET missing == {k \in 1..Len(fields) : fields[k] \notin available}
    IN  IF missing # {}
        THEN Unexpected(ErrorMsg("Required feature '" \o fields[Min(missing)]
                                   \o "' is not supported"))
        ELSE Expected(Range(fields))

\* variant: the structure returned is the one the device reported
test_vulkan10_features_Available(available) ==
    IF CHECK_FIELDS(available, required_features_vulkan10).has_value
    THEN Expected(available)
    ELSE CHECK_FIELDS(available, required_features_vulkan10)

test_vulkan10_features(available) == CHECK_FIELDS(available, required_features_vulkan10)
test_vulkan11_features(available) == CHECK_FIELDS(available, required_features_vulkan11)
test_vulkan12_features(available) == CHECK_FIELDS(available, required_features_vulkan12)
test_vulkan13_features(available) == CHECK_FIELDS(available, required_features_vulkan13)

\* the linked structure of the four required structures, or the first Error
test_device_features(dev) ==
    LET f10 == test_vulkan10_features(dev.features.vulkan10)
        f11 == test_vulkan11_features(dev.features.vulkan11)
        f12 == test_vulkan12_features(dev.features.vulkan12)
        f13 == test_vulkan13_features(dev.features.vulkan13)
    IN  IF ~f10.has_value THEN Unexpected(f10.error)
        ELSE IF ~f11.has_value THEN Unexpected(f11.error)
        ELSE IF ~f12.has_value THEN Unexpected(f12.error)
        ELSE IF ~f13.has_value THEN Unexpected(f13.error)
        ELSE Expected([vulkan10 |-> f10.value, vulkan11 |-> f11.value,
                       vulkan12 |-> f12.value, vulkan13 |-> f13.value])

test_device_extensions(dev) ==
    LET extensions == get_required_extensions
        unsupported_extensions == extensions \ dev.extensions
    IN  IF unsupported_extensions # {}
        THEN Unexpected(ErrorDetail("Missing required device extensions",
                                    unsupported_extensions))
        ELSE Expected(extensions)

test_device_limits(dev) == <<>>

test_device_type(dev) ==
    IF dev.deviceType # "eDiscreteGpu" /\ dev.deviceType # "eIntegratedGpu"
    THEN ErrorMsg("Hardware acceleration unavailable")
    ELSE <<>>

\* the index (from 0) of the first family that has all the required flags, as
\* an optional: <<>> is std::nullopt
find_queue_family_index(queue_families, required_flags) ==
    LET hits == {idx \in 0..(Len(queue_families) - 1) :
                   required_flags \subseteq queue_families[idx + 1].queueFlags}
    IN  IF hits # {} THEN <<Min(hits)>> ELSE <<>>

\* variant: the present role always takes the graphics family
test_device_queue_families_PresentIsGraphics(dev) ==
    LET graphics_index == find_queue_family_index(dev.queueFamilies, {"eGraphics"})
        compute_index == find_queue_family_index(dev.queueFamilies, {"eCompute"})
    IN  IF graphics_index = <<>>
        THEN Unexpected(ErrorMsg("No queue family supports graphics operations"))
        ELSE IF compute_index = <<>>
        THEN Unexpected(ErrorMsg("No queue family supports compute operations"))
        ELSE Expected(<<graphics_index[1], compute_index[1], graphics_index[1]>>)

\* (graphics, compute, present), or the Error of the first role without a family
test_device_queue_families(dev) ==
    LET graphics_index == find_queue_family_index(dev.queueFamilies, {"eGraphics"})
        compute_index == find_queue_family_index(dev.queueFamilies, {"eCompute"})
        size == Len(dev.queueFamilies)
        getSurfaceSupportKHR(idx) == dev.queueFamilies[idx + 1].surfaceSupport
        \* find_if over iota(0, size): the first supporting index, or the end, size
        find == Min({idx \in 0..(size - 1) : getSurfaceSupportKHR(idx)} \cup {size})
    IN  IF graphics_index = <<>>
        THEN Unexpected(ErrorMsg("No queue family supports graphics operations"))
        ELSE IF compute_index = <<>>
        THEN Unexpected(ErrorMsg("No queue family supports compute operations"))
        ELSE IF getSurfaceSupportKHR(graphics_index[1])
        THEN Expected(<<graphics_index[1], compute_index[1], graphics_index[1]>>)
        ELSE IF find = size
        THEN Unexpected(ErrorMsg("No queue family supports present operations"))
        ELSE Expected(<<graphics_index[1], compute_index[1], find>>)

\* the DeviceCreateInfo of a device that passes every test, or the Error of the
\* first test that fails, forwarded with the name of the test
test_device_suitability(dev) ==
    LET features_result == test_device_features(dev)
        extensions_result == test_device_extensions(dev)
        limits_result == test_device_limits(dev)
        type_result == test_device_type(dev)
        queue_families_result == test_device_queue_families(dev)
    IN  IF ~features_result.has_value
        THEN Unexpected(Forward(features_result.error,
                                "Device does not support required features"))
        ELSE IF ~extensions_result.has_value
        THEN Unexpected(Forward(extensions_result.error,
                                "Device does not support required extensions"))
        ELSE IF limits_result # <<>>
        THEN Unexpected(Forward(limits_result, "Device does not meet required limits"))
        ELSE IF type_result # <<>>
        THEN Unexpected(Forward(type_result, "Device is not of a suitable type"))
        ELSE IF ~queue_families_result.has_value
        THEN Unexpected(Forward(queue_families_result.error,
                                "Device does not have required queue families"))
        ELSE Expected([features_chain |-> features_result.value,
                       extensions |-> extensions_result.value,
                       graphics_family_index |-> queue_families_result.value[1],
                       compute_family_index |-> queue_families_result.value[2],
                       present_family_index |-> queue_families_result.value[3]])

\* the indices, in enumeration order, of the devices that passed
suitable_devices(devs) ==
    SelectSeq([i \in 1..Len(devs) |-> i],
              LAMBDA i : test_device_suitability(devs[i]).has_value)

\* variant: the last of the elements that no other element is ranked above
best_match_device_Last(devs) ==
    LET suitable == suitable_devices(devs)
        best == {k \in 1..Len(suitable) :
                   \A j \in 1..Len(suitable) :
                      ~(rank_device(devs[suitable[k]]) < rank_device(devs[suitable[j]]))}
    IN  suitable[Max(best)]

\* std::ranges::max_element(suitable, std::less(), rank_device): the first
\* element that no other element is ranked above
best_match_device(devs) ==
    LET suitable == suitable_devices(devs)
        best == {k \in 1..Len(suitable) :
                   \A j \in 1..Len(suitable) :
                      ~(rank_device(devs[suitable[k]]) < rank_device(devs[suitable[j]]))}
    IN  suitable[Min(best)]

\* the detail of the aggregate error: one entry per rejected device, joined
no_suitable_device_detail(devs) ==
    [i \in 1..Len(devs) |->
        IF test_device_suitability(devs[i]).has_value THEN <<>>
        ELSE << [device |-> devs[i].deviceName, type |-> devs[i].deviceType,
                 message |-> test_device_suitability(devs[i]).error[1].message] >>]

VkResults == {"eSuccess", "eErrorInitializationFailed"}

RECURSIVE SortedSeq(_)
\* the elements of a std::set in iteration order
SortedSeq(S) == IF S = {} THEN <<>> ELSE <<Min(S)>> \o SortedSeq(S \ {Min(S)})

unique_queue_indices(info) ==
    {info.graphics_family_index, info.compute_family_index, info.present_family_index}

DeviceQueueCreateInfo(index) == [queueFamilyIndex |-> index, queueCount |-> 1]

\* variant: one entry per role
queue_create_infos_PerRole(info) ==
    << DeviceQueueCreateInfo(info.graphics_family_index),
       DeviceQueueCreateInfo(info.compute_family_index),
       DeviceQueueCreateInfo(info.present_family_index) >>

\* one vk::DeviceQueueCreateInfo per element of unique_queue_indices
queue_create_infos(info) ==
    LET indices == SortedSeq(unique_queue_indices(info))
    IN  [k \in 1..Len(indices) |-> DeviceQueueCreateInfo(indices[k])]

\* the vk::raii::Queue objects by family index; each make_shared is a new
\* object, named here by its place in the loop
queues_map(info) ==
    [index \in unique_queue_indices(info) |->
        Cardinality({j \in unique_queue_indices(info) : j <= index})]

Queue(queue, family_index) == [queue |-> queue, family_index |-> family_index]

\* DeviceCreateInfo::create_logical_device
create_logical_device(info, device_result, queue_result) ==
    IF device_result # "eSuccess"
    THEN Unexpected(ErrorFrom(device_result))
    ELSE IF queue_result # "eSuccess"
    THEN Unexpected(Forward(ErrorFrom(queue_result), "Get queue at index failed"))
    ELSE Expected(
           [device |-> [queueCreateInfos |-> queue_create_infos(info),
                        enabledFeatures |-> info.features_chain,
                        enabledExtensionNames |-> info.extensions],
            graphics_queue |-> Queue(queues_map(info)[info.graphics_family_index],
                                     info.graphics_family_index),
            compute_queue |-> Queue(queues_map(info)[info.compute_family_index],
                                    info.compute_family_index),
            present_queue |-> Queue(queues_map(info)[info.present_family_index],
                                    info.present_family_index)])

DeviceContext_create(enumerate_result, device_result, queue_result, allocator_result) ==
    /\ device_context = NotCreated
    /\ device_context' =
         IF enumerate_result # "eSuccess"
         THEN ReturnError("create",
                  Forward(ErrorFrom(enumerate_result), "Enumerate physical devices failed"))
         ELSE IF suitable_devices(phy_devices) = <<>>
         THEN ReturnError("create",
                  ErrorDetail("No suitable physical device found",
                              no_suitable_device_detail(phy_devices)))
         ELSE LET best == best_match_device(phy_devices)
                  info == test_device_suitability(phy_devices[best]).value
                  device == create_logical_device(info, device_result, queue_result)
              IN  IF ~device.has_value
                  THEN ReturnError("create",
                           Forward(device.error, "Create logical device failed"))
                  ELSE IF allocator_result # "eSuccess"
                  THEN ReturnError("create",
                           Forward(ErrorFrom(allocator_result), "Create allocator failed"))
                  ELSE [kind |-> "DeviceContext", phy_device |-> best,
                        device |-> device.value.device,
                        graphics_queue |-> device.value.graphics_queue,
                        compute_queue |-> device.value.compute_queue,
                        present_queue |-> device.value.present_queue]
    /\ UNCHANGED <<phy_devices, swapchain_vars, util_vars, app_vars>>

InitDevice ==
    /\ phy_devices \in SeqsUpTo(PhysicalDevices, MaxDevices)
    /\ device_context = NotCreated
    /\ surface = SurfaceReport(ExtentA, <<FmtUnorm, FmtRGBA, FmtBGRA>>,
                               {"eFifo", "eMailbox"}, 2, 8)
    /\ sharing_mode = "eExclusive"
    /\ queue_family_indices = <<0>>
    /\ surface_format = select_surface_format(surface.formats)
    /\ present_mode = select_present_mode(surface.presentModes)
    /\ state = MonoState
    /\ pc = "idle"
    /\ timeout = "max"
    /\ semaphore = <<>>
    /\ ret = NoReturn
    /\ trace = NoTrace
    /\ hist = HistInit
    /\ NoCycle
    /\ App_create
    /\ NoError
    /\ NoTracker

NextDevice ==
    \E e \in VkResults, d \in VkResults, q \in VkResults, a \in VkResults :
        DeviceContext_create(e, d, q, a)

SpecDevice == InitDevice /\ [][NextDevice]_vars

(***************************************************************************)
(* App::draw_frame in a loop.  prepare_frame runs up to the call of         *)
(* acquire_next, the swapchain machine runs the call, prepare_frame goes on *)
(* with the Frame; then the command buffer is recorded and submitted and    *)
(* present is called.  An Error unwrapped, or thrown, ends the loop.        *)
(***************************************************************************)
WaitResults == {"eSuccess", "eErrorDeviceLost"}

\* variant: waitForFences returns without the fence being signaled
waitForFences_NoWait(fence) == TRUE

\* waitForFences(fence, vk::True, UINT64_MAX) returns eSuccess once the fence
\* is signaled
waitForFences(fence) == fences[fence]

\* the command buffers of the submissions the queue has not finished
InFlight == {submissions[k].command_buffer : k \in 1..Len(submissions)}

\* variant: waitIdle returns while the queue still has work
waitIdle_NoWait == TRUE

\* device.waitIdle() returns once the queue has finished every submission
waitIdle == submissions = <<>>

\* the event pump of draw_frame: quit is set by SDL_EVENT_QUIT, every other
\* event, SDL_EVENT_WINDOW_MINIMIZED included, only goes on to the next event
draw_frame_events(events) ==
    /\ app_pc = "draw_frame"
    /\ app_hist' = [NoFrame EXCEPT !.last_fence = app_hist.last_fence,
                                   !.events = events,
                                   !.quit = "SDL_EVENT_QUIT" \in events]
    /\ app_pc' = "prepare_frame"
    /\ UNCHANGED <<swapchain_vars, device_vars, util_vars, command_buffers,
                   sync_primitives, render_resources, fences, submissions>>

prepare_frame ==
    /\ app_pc = "prepare_frame"
    /\ command_buffers' = cycle(command_buffers)
    /\ sync_primitives' = cycle(sync_primitives)
    /\ app_pc' = "waitForFences"
    /\ UNCHANGED app_hist
    /\ UNCHANGED <<swapchain_vars, device_vars, util_vars, render_resources,
                   fences, submissions>>

prepare_frame_wait(wait_result) ==
    /\ app_pc = "waitForFences"
    /\ IF wait_result = "eSuccess"
       THEN /\ waitForFences(current(sync_primitives))
            /\ app_hist' = [app_hist EXCEPT !.waited = <<current(sync_primitives)>>]
            /\ app_pc' = "acquire_next"
       ELSE /\ app_pc' = "thrown"
            /\ UNCHANGED app_hist
    /\ UNCHANGED <<swapchain_vars, device_vars, util_vars, command_buffers,
                   sync_primitives, render_resources, fences, submissions>>

\* swapchain_context.acquire_next(instance_context, device_context, semaphore):
\* no fence, the default timeout
prepare_frame_acquire ==
    /\ app_pc = "acquire_next"
    /\ ret.op # "acquire_next"
    /\ acquire_next(<<image_available_semaphore(current(sync_primitives))>>, "max")

\* the Frame is back: new render resources for every slot when it says the
\* extent changed (after waitIdle), else the next slot
prepare_frame_resources ==
    /\ app_pc = "acquire_next"
    /\ pc = "idle"
    /\ ret.op = "acquire_next"
    /\ IF ret.kind = "Error"
       THEN /\ app_pc' = "thrown"
            /\ UNCHANGED <<render_resources, app_hist>>
       ELSE /\ app_pc' = "record"
            /\ IF ret.extent_changed
               THEN /\ waitIdle
                    /\ render_resources' =
                         [k \in 1..FrameSlots |-> FrameRenderResource(ret.extent)]
                    /\ app_hist' = [app_hist EXCEPT !.rebuilt =
                         [k \in 1..Len(render_resources) |->
                             render_resources[k].depth_buffer.extent]]
               ELSE /\ render_resources' = cycle(render_resources)
                    /\ UNCHANGED app_hist
    /\ UNCHANGED <<swapchain_vars, device_vars, util_vars, command_buffers,
                   sync_primitives, fences, submissions>>

\* command_buffer.begin ... command_buffer.end
draw_frame_record ==
    /\ app_pc = "record"
    /\ app_hist' = [app_hist EXCEPT !.recorded =
          << [command_buffer |-> current(command_buffers),
              in_flight |-> current(command_buffers) \in InFlight] >>]
    /\ app_pc' = "submit"
    /\ UNCHANGED <<swapchain_vars, device_vars, util_vars, command_buffers,
                   sync_primitives, render_resources, fences, submissions>>

\* resetFences({sync.draw_fence}); graphics_queue.submit(info, sync.draw_fence)
draw_frame_submit ==
    /\ app_pc = "submit"
    /\ fences' = [fences EXCEPT ![current(sync_primitives)] = FALSE]
    /\ submissions' = Append(submissions,
          [command_buffer |-> current(command_buffers),
           fence |-> current(sync_primitives),
           depth_buffer |-> current(render_resources).depth_buffer,
           extent |-> ret.extent])
    /\ app_hist' = [app_hist EXCEPT
          !.reset = <<current(sync_primitives)>>,
          !.submit = << [wait |-> wait_semaphores(current(sync_primitives)),
                         signal |-> signal_semaphores(current(sync_primitives))] >>,
          !.last_fence[current(command_buffers)] = <<current(sync_primitives)>>]
    /\ app_pc' = "present"
    /\ UNCHANGED <<swapchain_vars, device_vars, util_vars, command_buffers,
                   sync_primitives, render_resources>>

\* swapchain_context.present(device_context, swapchain, render_finished_semaphore)
draw_frame_present(result) ==
    /\ app_pc = "present"
    /\ ret.op # "present"
    /\ present(render_finished_semaphore(current(sync_primitives)), result)

\* draw_frame returns !quit, or the Error of present is thrown
draw_frame_return ==
    /\ app_pc = "present"
    /\ ret.op = "present"
    /\ app_pc' = IF ret.kind = "Error" THEN "thrown"
               ELSE IF app_hist.quit THEN "quit" ELSE "draw_frame"
    /\ UNCHANGED <<swapchain_vars, device_vars, util_vars, command_buffers,
                   sync_primitives, render_resources, fences, submissions, app_hist>>

\* the graphics queue finishes its oldest submission and signals its fence
queue_complete ==
    /\ submissions # <<>>
    /\ fences' = [fences EXCEPT ![Head(submissions).fence] = TRUE]
    /\ submissions' = Tail(submissions)
    /\ UNCHANGED <<swapchain_vars, device_vars, util_vars, command_buffers,
                   sync_primitives, render_resources, app_pc, app_hist>>

\* the App goes out of scope, after draw_frame returned false or while an Error
\* thrown by it unwinds the stack: ~App waits for the device, then the members
\* are destroyed
App_destructor ==
    /\ app_pc \in {"quit", "thrown"}
    /\ waitIdle
    /\ app_hist' = [app_hist EXCEPT !.destroyed = Reverse(App_members)]
    /\ app_pc' = "destroyed"
    /\ UNCHANGED <<swapchain_vars, device_vars, util_vars, command_buffers,
                   sync_primitives, render_resources, fences, submissions>>

\* the render loop of a window that gets no quit or minimize event, on a
\* surface that changes and a device that fails in every way
NextApp ==
    \/ draw_frame_events({})
    \/ prepare_frame
    \/ \E r \in WaitResults : prepare_frame_wait(r)
    \/ prepare_frame_acquire
    \/ \E r \in CreateResults : check_and_recreate_swapchain(r)
    \/ \E r \in AcquireResults : acquireNextImage(r)
    \/ prepare_frame_resources
    \/ draw_frame_record
    \/ draw_frame_submit
    \/ \E r \in NativePresentResults : draw_frame_present(r)
    \/ draw_frame_return
    \/ queue_complete
    \/ App_destructor
    \/ SurfaceChange

SpecApp == Init /\ [][NextApp]_vars

(***************************************************************************)
(* Cycle<T> on its own: every Cycle of up to MaxSlots distinct items, and   *)
(* calls of cycle().                                                       *)
(***************************************************************************)
Cycles ==
    {c \in SeqsUpTo(1..MaxSlots, MaxSlots) :
        c # <<>> /\ \A a, b \in 1..Len(c) : c[a] = c[b] => a = b}

InitCycle ==
    /\ items \in Cycles
    /\ before = <<>>
    /\ phy_devices = <<>>
    /\ device_context = NotCreated
    /\ surface = SurfaceReport(ExtentA, <<FmtUnorm, FmtRGBA, FmtBGRA>>,
                               {"eFifo", "eMailbox"}, 2, 8)
    /\ sharing_mode = "eExclusive"
    /\ queue_family_indices = <<0>>
    /\ surface_format = select_surface_format(surface.formats)
    /\ present_mode = select_present_mode(surface.presentModes)
    /\ state = MonoState
    /\ pc = "idle"
    /\ timeout = "max"
    /\ semaphore = <<>>
    /\ ret = NoReturn
    /\ trace = NoTrace
    /\ hist = HistInit
    /\ App_create
    /\ NoError
    /\ NoTracker

Cycle_cycle ==
    /\ before' = <<current(items)>>
    /\ items' = cycle(items)
    /\ UNCHANGED <<swapchain_vars, device_vars, app_vars, error_vars, tracker_vars>>

NextCycle == Cycle_cycle

SpecCycle == InitCycle /\ [][NextCycle]_vars

(***************************************************************************)
(* Properties of acquire_next and present.                                 *)
(***************************************************************************)
FrameReturned == ret.kind = "Frame"
Tags == {"monostate", "RuntimeState", "InvalidatedState"}

\* C1: a native acquire that answers out-of-date or suboptimal invalidates the
\* state and stays in the call; no Error of acquire_next has such an answer as
\* its root; and the Frame of a call that went through a soft failure comes after
\* exactly one creation since the last soft failure.
C1_SoftAcquireRetriedInCall ==
    /\ (trace.op = "acquireNextImage" /\ trace.native \in SoftFailures)
          => (state.tag = "InvalidatedState" /\ pc = "check_and_recreate_swapchain"
              /\ ret = NoReturn)
    /\ (ret.kind = "Error" /\ ret.op = "acquire_next")
          => Root(ret.error).result \notin SoftFailures
    /\ (FrameReturned /\ hist.softFailedInCall)
          => (hist.invalidatedBy = "acquire_next" /\ hist.recreations = 1
              /\ hist.createFailures = 0)

C1_Witness ==
    /\ FrameReturned /\ hist.softFailedInCall /\ hist.recreations = 1
    /\ trace.op = "acquireNextImage"

C4_NotReadyRetried ==
    (trace.op = "acquireNextImage" /\ trace.native = "eNotReady")
        => (pc # "idle" /\ ret.kind # "Error")

\* C5: the state is one of the three variants and moves only Empty -> Live,
\* Live -> Invalidated, Invalidated -> Live; a creation is attempted only when
\* the state is not Live; each move into Live is one successful creation.
C5_StateTransitions ==
    [][ /\ state'.tag \in Tags
        /\ state'.tag # state.tag
              => <<state.tag, state'.tag>> \in
                   { <<"monostate", "RuntimeState">>,
                     <<"RuntimeState", "InvalidatedState">>,
                     <<"InvalidatedState", "RuntimeState">> }
        /\ (pc = "check_and_recreate_swapchain" /\ pc' # pc /\ trace'.created)
              => (state.tag # "RuntimeState" /\ trace'.createdFrom = state.tag)
        /\ (state.tag # "RuntimeState" /\ state'.tag = "RuntimeState")
              => (trace'.created /\ trace'.createResult = "eSuccess"
                  /\ hist.recreations = 0 /\ hist'.recreations = 1)
      ]_vars

C5_Witness ==
    /\ state.tag = "RuntimeState" /\ trace.created
    /\ trace.createdFrom = "InvalidatedState" /\ hist.recreations = 1

\* C6: every Frame has the extent the surface had at the most recent creation,
\* and the Frame of a call that went through a soft failure has
\* extent_changed = true.
C6_FrameExtentIsExtentAtCreation ==
    FrameReturned =>
        /\ hist.surfaceAtCreate # <<>>
        /\ ret.extent = << hist.surfaceAtCreate[1].currentExtent.width,
                           hist.surfaceAtCreate[1].currentExtent.height >>
        /\ hist.softFailedInCall => ret.extent_changed

\* a Frame of 1024x768 after a Frame of 800x600, in a call that soft-failed
C6_Witness ==
    /\ FrameReturned /\ hist.softFailedInCall /\ ret.extent_changed
    /\ hist.prevFrameExtent = <<800, 600>> /\ ret.extent = <<1024, 768>>
    /\ surface.currentExtent = ExtentB

ExtentDiffers == hist.prevFrameExtent = <<>> \/ ret.extent # hist.prevFrameExtent

C9_NoTimeoutAcquireReturns ==
    /\ [](ret.op = "acquire_next" => ret.kind \in {"Frame", "Error"})
    /\ (pc # "idle" /\ timeout = "max")
          ~> (pc = "idle" /\ ret.op = "acquire_next" /\ ret.kind \in {"Frame", "Error"})

\* a call with no timeout that went through a soft failure has returned
C9_Witness ==
    /\ pc = "idle" /\ ret.op = "acquire_next" /\ hist.softFailedInCall
    /\ trace.op = "acquireNextImage" /\ trace.native \notin {"eNotReady", "eTimeout"}

(***************************************************************************)
(* Properties of DeviceContext::create.                                    *)
(***************************************************************************)
Created == device_context.kind = "DeviceContext"
Accepted(i) == test_device_suitability(phy_devices[i]).has_value
LocalMiB(i) ==
    SumSizes(SelectSeq(phy_devices[i].memoryHeaps, is_device_local))

\* two accepted candidates, one discrete and one integrated
DiscreteAndIntegrated ==
    /\ Len(phy_devices) = 2
    /\ Accepted(1) /\ Accepted(2)
    /\ {phy_devices[1].deviceType, phy_devices[2].deviceType}
         = {"eDiscreteGpu", "eIntegratedGpu"}

\* C10: of two accepted devices, one discrete and one integrated, create selects
\* the discrete one whatever the two memory sizes are.
C10_DiscreteSelected ==
    (Created /\ DiscreteAndIntegrated)
        => phy_devices[device_context.phy_device].deviceType = "eDiscreteGpu"

NoneSuitable ==
    /\ device_context.kind = "Error"
    /\ device_context.error[1].message = "No suitable physical device found"

\* C11: when no device is accepted, create fails with one error whose detail has,
\* for every enumerated device, its name, its type and the specific reason the
\* device was rejected for (the missing feature, extension or queue capability,
\* which is the root of the Error of its suitability test).
C11_AggregateHasSpecificReasons ==
    NoneSuitable =>
        \A i \in 1..Len(phy_devices) :
            LET entry == device_context.error[1].detail[i]
                root == Root(test_device_suitability(phy_devices[i]).error)
            IN  /\ entry # <<>>
                /\ entry[1].device = phy_devices[i].deviceName
                /\ entry[1].type = phy_devices[i].deviceType
                /\ entry[1].message = root.message

\* the device create selected
Selected == phy_devices[device_context.phy_device]

\* C12: the selected device is an accepted one, no accepted device has a higher
\* score, and no accepted device enumerated before it has the same score.
C12_FirstMaximumOfAccepted ==
    Created =>
        /\ device_context.phy_device \in 1..Len(phy_devices)
        /\ Accepted(device_context.phy_device)
        /\ \A j \in 1..Len(phy_devices) :
              Accepted(j) =>
                 /\ rank_device(phy_devices[j]) <= rank_device(Selected)
                 /\ (j < device_context.phy_device
                        => rank_device(phy_devices[j]) < rank_device(Selected))

\* two accepted devices of the same score, told apart by their names: the first
\* is selected
C12_Witness ==
    /\ Created /\ Len(phy_devices) = 2 /\ Accepted(1) /\ Accepted(2)
    /\ rank_device(phy_devices[1]) = rank_device(phy_devices[2])
    /\ phy_devices[1].deviceName # phy_devices[2].deviceName
    /\ device_context.phy_device = 1

InfoOf(i) == test_device_suitability(phy_devices[i]).value
HasFamily(dev, index) == index \in 0..(Len(dev.queueFamilies) - 1)

\* C13: for every accepted device each of the three roles has the index of an
\* existing queue family: one with the graphics bit, one with the compute bit,
\* and one that supports presentation to the surface.
C13_RolesResolve ==
    \A i \in 1..Len(phy_devices) :
        Accepted(i) =>
            LET dev == phy_devices[i]
                g == InfoOf(i).graphics_family_index
                c == InfoOf(i).compute_family_index
                p == InfoOf(i).present_family_index
            IN  /\ HasFamily(dev, g) /\ "eGraphics" \in dev.queueFamilies[g + 1].queueFlags
                /\ HasFamily(dev, c) /\ "eCompute" \in dev.queueFamilies[c + 1].queueFlags
                /\ HasFamily(dev, p) /\ dev.queueFamilies[p + 1].surfaceSupport

\* a created context whose present queue is of another family than its graphics
\* queue, because the graphics family cannot present
C13_Witness ==
    /\ Created
    /\ device_context.present_queue.family_index # device_context.graphics_queue.family_index
    /\ ~Selected.queueFamilies[device_context.graphics_queue.family_index + 1].surfaceSupport
    /\ Selected.queueFamilies[device_context.present_queue.family_index + 1].surfaceSupport

IsRenderFamily(family) == RenderFlags \subseteq family.queueFlags

\* C14: when the selected device has a family with graphics, compute and
\* transfer together, the graphics queue and the compute queue of the created
\* context are of one such family, the same for both.
C14_RenderFamilyPreferred ==
    (Created /\ \E k \in 1..Len(Selected.queueFamilies) :
                    IsRenderFamily(Selected.queueFamilies[k]))
        => /\ device_context.graphics_queue.family_index
                 = device_context.compute_queue.family_index
           /\ IsRenderFamily(
                 Selected.queueFamilies[device_context.graphics_queue.family_index + 1])

RoleQueues ==
    <<device_context.graphics_queue, device_context.compute_queue,
      device_context.present_queue>>

\* C15: the logical device is created with one queue-creation entry, of one
\* queue, for each family index that a role has, no two entries for the same
\* family; two roles have the same queue object exactly when they have the same
\* family index.
C15_OneQueuePerFamily ==
    Created =>
        LET infos == device_context.device.queueCreateInfos
        IN  /\ \A a, b \in 1..Len(infos) :
                  infos[a].queueFamilyIndex = infos[b].queueFamilyIndex => a = b
            /\ \A a \in 1..Len(infos) : infos[a].queueCount = 1
            /\ {infos[a].queueFamilyIndex : a \in 1..Len(infos)}
                  = {RoleQueues[r].family_index : r \in 1..3}
            /\ \A r, s \in 1..3 :
                  RoleQueues[r].queue = RoleQueues[s].queue
                     <=> RoleQueues[r].family_index = RoleQueues[s].family_index

\* graphics and compute on one family and one queue, present on another
C15_Witness ==
    /\ Created
    /\ Len(device_context.device.queueCreateInfos) = 2
    /\ device_context.graphics_queue = device_context.compute_queue
    /\ device_context.present_queue.queue # device_context.graphics_queue.queue

HasRequired(dev) ==
    /\ \A s \in DOMAIN RequiredFeatures : RequiredFeatures[s] \subseteq dev.features[s]
    /\ mandatory_device_extensions \subseteq dev.extensions

\* C16: a device of a suitable type with the queue families is accepted exactly
\* when it has every required feature and every required extension; the feature
\* structures of an accepted device, and of the created logical device, have
\* exactly the required fields set, whatever else the device supports.
C16_AcceptedIffRequiredAvailable ==
    /\ \A i \in 1..Len(phy_devices) :
          /\ (test_device_type(phy_devices[i]) = <<>>
                /\ test_device_queue_families(phy_devices[i]).has_value)
                => (Accepted(i) <=> HasRequired(phy_devices[i]))
          /\ Accepted(i) => /\ HasRequired(phy_devices[i])
                            /\ InfoOf(i).features_chain = RequiredFeatures
    /\ Created => device_context.device.enabledFeatures = RequiredFeatures

\* created on a device that supports more than is required, next to a device
\* rejected only for a missing feature
C16_Witness ==
    /\ Created /\ Len(phy_devices) = 2
    /\ Selected.features # RequiredFeatures
    /\ device_context.device.enabledFeatures = RequiredFeatures
    /\ \E i \in 1..2 :
          /\ ~Accepted(i) /\ ~HasRequired(phy_devices[i])
          /\ test_device_type(phy_devices[i]) = <<>>
          /\ test_device_queue_families(phy_devices[i]).has_value

(***************************************************************************)
(* Properties of the image count.                                          *)
(***************************************************************************)
\* C17: the image count asked for at a creation is at least the minImageCount
\* the surface reports, at most its maxImageCount unless that is 0, and is 3
\* whenever 3 is within those bounds.
C17_ImageCountWithinReport ==
    trace.created =>
        LET n == trace.createInfo[1].minImageCount
            report == trace.surface_capability[1]
            within(k) == /\ report.minImageCount <= k
                         /\ (report.maxImageCount # 0 => k <= report.maxImageCount)
        IN  /\ within(n)
            /\ within(3) => n = 3

(***************************************************************************)
(* Properties of Cycle.                                                    *)
(***************************************************************************)
\* C19: on a Cycle of two or more items, after a call of cycle() prev() is the
\* item current() was before the call, and current() is another item than prev().
C19_PrevIsLastCurrent ==
    (before # <<>> /\ Len(items) >= 2)
        => (prev(items) = before[1] /\ current(items) # prev(items))

\* cycle() has been called on a Cycle of three items
C19_Witness ==
    /\ before # <<>> /\ Len(items) = 3
    /\ prev(items) = before[1] /\ current(items) # prev(items)

(***************************************************************************)
(* Properties of the render loop.                                          *)
(***************************************************************************)
\* C18: a command buffer is recorded, and a fence reset, only after the frame
\* has waited for the fence of the slot, which is the fence the command buffer
\* was last submitted with; no unfinished submission uses the command buffer
\* while it is recorded, nor until it is submitted again.
C18_RecordAfterFenceWait ==
    /\ app_hist.recorded # <<>> =>
          /\ ~app_hist.recorded[1].in_flight
          /\ app_hist.waited = <<current(sync_primitives)>>
          /\ app_hist.last_fence[app_hist.recorded[1].command_buffer]
                \in {<<>>, app_hist.waited}
    /\ app_hist.reset # <<>> => app_hist.reset = app_hist.waited
    /\ app_pc \in {"record", "submit"} => current(command_buffers) \notin InFlight

\* a command buffer recorded again, after the wait for the fence of its last
\* submission, while the submission of the frame before is unfinished
C18_Witness ==
    /\ app_pc = "submit"
    /\ app_hist.recorded # <<>> /\ ~app_hist.recorded[1].in_flight
    /\ app_hist.last_fence[current(command_buffers)] = app_hist.waited
    /\ submissions # <<>>

\* C20: the render resources a frame replaces are those of slots whose size is
\* not the extent of the Frame: no slot of that size already is replaced, and a
\* frame whose Frame has extent_changed = false replaces none.
C20_RebuiltOnlyOnMismatch ==
    app_pc \in {"record", "submit"} =>
        /\ \A k \in 1..Len(app_hist.rebuilt) : app_hist.rebuilt[k] # ret.extent
        /\ ~ret.extent_changed => app_hist.rebuilt = <<>>

(***************************************************************************)
(* The frame's semaphores.                                                 *)
(***************************************************************************)
\* the frame has submitted its command buffer
Submitted == app_hist.submit # <<>>

\* the submission waits on the semaphore the frame's acquire was asked to signal
\* (the last native acquire of the frame's acquire_next is the last swapchain
\* step until the frame presents), and the present waits on the semaphore the
\* frame's submission signals
SemaphoresChained ==
    /\ (Submitted /\ trace.op = "acquireNextImage")
          => app_hist.submit[1].wait = trace.semaphore
    /\ (Submitted /\ trace.op = "present" /\ trace.native # "none")
          => trace.semaphore = app_hist.submit[1].signal

\* C21: in every frame the submission waits on the semaphore of the frame's
\* acquire and the present on the semaphore of the frame's submission, and the
\* only signal the submission can wait for is the one of the native acquire
\* that returned the frame's image: rendering does not start before that image
\* is available, nor presentation before rendering has finished.
C21_SemaphoresChainAcquireSubmitPresent ==
    /\ SemaphoresChained
    /\ Submitted => ~hist.signalScheduled

(***************************************************************************)
(* The render loop with its event pump, on a surface that is not resized   *)
(* and a device that creates every swapchain it is asked for.              *)
(***************************************************************************)
NextAppEvents ==
    \/ \E events \in SUBSET Events : draw_frame_events(events)
    \/ prepare_frame
    \/ \E r \in WaitResults : prepare_frame_wait(r)
    \/ prepare_frame_acquire
    \/ check_and_recreate_swapchain("eSuccess")
    \/ \E r \in AcquireResults : acquireNextImage(r)
    \/ prepare_frame_resources
    \/ draw_frame_record
    \/ draw_frame_submit
    \/ \E r \in NativePresentResults : draw_frame_present(r)
    \/ draw_frame_return
    \/ queue_complete
    \/ App_destructor

SpecAppEvents == Init /\ [][NextAppEvents]_vars

(***************************************************************************)
(* Teardown.                                                               *)
(***************************************************************************)
Pos(member) == CHOOSE k \in 1..Len(app_hist.destroyed) : app_hist.destroyed[k] = member
DestroyedBefore(a, b) == Pos(a) < Pos(b)
PerFrameMembers == {"command_buffers", "sync_primitives", "render_resources"}

\* C22: when the App is torn down, after draw_frame returned false or while an
\* Error thrown by it unwinds, no member is destroyed while the queue still has
\* a submission; the device context is destroyed after the swapchain context
\* and the per-frame members, and the instance context (instance, surface,
\* window) after the device context.
C22_TeardownWaitsThenReverseOrder ==
    app_hist.destroyed # <<>> =>
        /\ submissions = <<>>
        /\ \A m \in PerFrameMembers \cup {"swapchain_context"} :
               DestroyedBefore(m, "device_context")
        /\ DestroyedBefore("device_context", "instance_context")

\* torn down while the Error of a failed present unwinds, the frame's
\* submission having been queued before the present
C22_Witness ==
    /\ app_pc = "destroyed"
    /\ Len(app_hist.destroyed) = Len(App_members)
    /\ ret.kind = "Error"
    /\ ret.op = "present"
    /\ Submitted
    /\ ~app_hist.quit

(***************************************************************************)
(* The event pump.                                                         *)
(***************************************************************************)
\* the frame has a swapchain image from acquire_next
Acquired ==
    \/ app_pc \in {"record", "submit", "present"}
    \/ app_pc = "acquire_next" /\ ret.op = "acquire_next" /\ ret.kind = "Frame"

\* C23: a frame whose event pump received a window-minimized notification
\* acquires, submits and presents no swapchain image.
C23_MinimizedFrameSkipsRendering ==
    "SDL_EVENT_WINDOW_MINIMIZED" \in app_hist.events =>
        /\ ~Acquired
        /\ ~Submitted
        /\ trace.op # "present"

(***************************************************************************)
(* Errors.                                                                 *)
(***************************************************************************)
\* C24: an Error that acquire_next or present returns for a failure of the
\* backend has the backend failure as the root of its chain and at least one
\* context entry above it.
C24_BackendErrorsCarryContext ==
    (ret.kind = "Error" /\ Root(ret.error).message = "vk::Result")
        => Len(ret.error) >= 2

(***************************************************************************)
(* The utility classes on their own: every context is left as created.     *)
(***************************************************************************)
IdleContext ==
    /\ phy_devices = <<>>
    /\ device_context = NotCreated
    /\ surface = SurfaceReport(ExtentA, <<FmtUnorm, FmtRGBA, FmtBGRA>>,
                               {"eFifo", "eMailbox"}, 2, 8)
    /\ sharing_mode = "eExclusive"
    /\ queue_family_indices = <<0>>
    /\ surface_format = select_surface_format(surface.formats)
    /\ present_mode = select_present_mode(surface.presentModes)
    /\ state = MonoState
    /\ pc = "idle"
    /\ timeout = "max"
    /\ semaphore = <<>>
    /\ ret = NoReturn
    /\ trace = NoTrace
    /\ hist = HistInit
    /\ App_create

(***************************************************************************)
(* An Error forwarded up to MaxForwards times.                             *)
(***************************************************************************)
\* forward() is called at most this many times on one error
MaxForwards == 3

Messages == {"Level 1", "Level 2"}
Details == {<<>>, <<"detail A">>, <<"detail B">>}

InitError ==
    /\ \E message \in {"Level 0", "Origin error"}, detail \in Details :
          err = Error(message, detail)
    /\ forwarded = [NoForwards EXCEPT !.root = <<err>>]
    /\ NoCycle
    /\ NoTracker
    /\ IdleContext

Error_forward(message, detail) ==
    /\ Len(forwarded.contexts) < MaxForwards
    /\ err' = forward(err, message, detail)
    /\ forwarded' = [forwarded EXCEPT
          !.from = <<err>>,
          !.contexts = Append(@, [message |-> message, detail |-> detail])]
    /\ UNCHANGED <<swapchain_vars, device_vars, app_vars, cycle_vars, tracker_vars>>

NextError == \E message \in Messages, detail \in Details : Error_forward(message, detail)

SpecError == InitError /\ [][NextError]_vars

\* C25: after k calls of forward() on a root error, chain() has k+1 entries:
\* first the contexts from the one added last to the one added first, each with
\* the message and detail it was given, then the root error; and the cause of a
\* forwarded error is the error it was forwarded from, message and detail
\* unchanged.
C25_ChainIsContextsThenRoot ==
    forwarded.root # <<>> =>
        LET k == Len(forwarded.contexts)
            c == chain(err)
        IN  /\ Len(c) = k + 1
            /\ \A i \in 1..k :
                  /\ c[i].message = forwarded.contexts[k + 1 - i].message
                  /\ c[i].detail = forwarded.contexts[k + 1 - i].detail
            /\ c[k + 1] = forwarded.root[1]
            /\ k >= 1 =>
                  /\ err.cause # <<>>
                  /\ err.cause[1].message = forwarded.from[1].message
                  /\ err.cause[1].detail = forwarded.from[1].detail

\* Error("Level 0").forward("Level 1").forward("Level 2"), then forwarded once
\* more with a detail
C25_Witness ==
    /\ Len(forwarded.contexts) = 3
    /\ [k \in 1..4 |-> chain(err)[k].message] = <<"Level 1", "Level 2", "Level 1", "Level 0">>
    /\ err.detail = <<"detail B">>
    /\ err.cause[1].detail = <<>>

(***************************************************************************)
(* An ExtentTracker, constructed with or without an initial extent and     *)
(* then updated.                                                           *)
(***************************************************************************)
TrackedExtents == {<<w, h>> : w \in {640, 800, 1024}, h \in {480, 600, 768}}

InitExtentTracker ==
    /\ \/ /\ tracker = ExtentTracker_default
          /\ updates = NoUpdates
       \/ \E initial_extent \in TrackedExtents :
             /\ tracker = ExtentTracker(initial_extent)
             /\ updates = [NoUpdates EXCEPT !.latest = <<initial_extent>>]
    /\ NoCycle
    /\ NoError
    /\ IdleContext

\* tracker.update(new_extent); what the tracker was given last is now what it
\* held before
ExtentTracker_update(new_extent) ==
    /\ tracker' = update(tracker, new_extent)
    /\ updates' = [held |-> updates.latest, latest |-> <<new_extent>>]
    /\ UNCHANGED <<swapchain_vars, device_vars, app_vars, cycle_vars, error_vars>>

NextExtentTracker == \E new_extent \in TrackedExtents : ExtentTracker_update(new_extent)

SpecExtentTracker == InitExtentTracker /\ [][NextExtentTracker]_vars

\* the tracker has been updated at least once
Updated == tracker.current_extent # <<>>

\* C26: after an update, is_changed() is true exactly when the tracker held no
\* extent before that update (neither from an earlier update nor from the
\* constructor) or the extent of the update differs from the one held before.
C26_ChangedIffDiffersFromHeld ==
    Updated =>
        (is_changed(tracker) <=>
            (updates.held = <<>> \/ updates.latest[1] # updates.held[1]))

(***************************************************************************)
(* What an Error leaves behind.                                            *)
(***************************************************************************)
\* a call of present, between two states
PresentStep == pc = "idle" /\ pc' = "idle" /\ surface' = surface /\ trace'.op = "present"

\* the native acquire of a running acquire_next fails and the call returns
NativeAcquireErrorStep == pc = "acquireNextImage" /\ pc' = "idle" /\ ret'.kind = "Error"

\* present on a state that is not Live returns an Error and calls no native
\* present
PresentNotLiveIsError ==
    (PresentStep /\ state.tag # "RuntimeState")
        => ret'.kind = "Error" /\ trace'.native = "none"

\* C27 as claimed: an Error of present and an Error of acquire_next for a failed
\* native acquire leave the state as it was before the call (nothing assigned
\* it since the call began), and present on a state that is not Live returns an
\* Error without a native present.
C27_ErrorLeavesStateAsBeforeCall ==
    [][ /\ (PresentStep /\ ret'.kind = "Error") => state' = state
        /\ NativeAcquireErrorStep => (state' = state /\ ~hist.assignedInCall)
        /\ PresentNotLiveIsError ]_vars

\* C27 amended: an Error of present leaves the state as it was before the call;
\* an Error of acquire_next for a failed native acquire leaves the state as it
\* was when that native acquire was made, Live with whatever swapchain the call
\* created before it; present on a state that is not Live returns an Error
\* without a native present.
C27_ErrorLeavesStateAsBeforeNativeCall ==
    [][ /\ (PresentStep /\ ret'.kind = "Error") => state' = state
        /\ NativeAcquireErrorStep => (state' = state /\ state.tag = "RuntimeState")
        /\ PresentNotLiveIsError ]_vars

\* acquire_next has returned the Error of a native acquire that failed after
\* the call had gone through a soft failure and a recreation
C27_Witness ==
    /\ ret.kind = "Error"
    /\ ret.op = "acquire_next"
    /\ trace.op = "acquireNextImage"
    /\ trace.native = "eErrorDeviceLost"
    /\ hist.softFailedInCall
    /\ hist.assignedInCall
    /\ state.tag = "RuntimeState"
    /\ state.extent_changed

(***************************************************************************)
(* The old-swapchain hint.                                                 *)
(***************************************************************************)
\* the old-swapchain hint of the creation the last step attempted
Hint == trace.createInfo[1].oldSwapchain

\* C28: a stale handle kept in the InvalidatedState has been passed to no
\* creation yet; a creation from monostate, and one after a failed creation,
\* pass no hint; once the attempt is over the state does not hold the hinted
\* handle (its last owner was the local of the attempt), and after a failed
\* attempt the state is not Live.
C28_StaleHandleHintedOnce ==
    /\ (state.tag = "InvalidatedState" /\ state.old_swapchain # NULL)
          => hist.recreations = 0 /\ hist.createFailures = 0
    /\ trace.created =>
          /\ trace.createdFrom = "monostate" => Hint = NULL
          /\ IF trace.createResult = "eSuccess"
             THEN /\ hist.createFailures >= 1 => Hint = NULL
                  /\ state.tag = "RuntimeState"
                  /\ state.swapchain # Hint
             ELSE /\ hist.createFailures >= 2 => Hint = NULL
                  /\ state.tag # "RuntimeState"
                  /\ state.tag = "InvalidatedState" => state.old_swapchain = NULL

\* a recreation that follows a failed recreation of the same invalidated
\* swapchain: it succeeds, with no hint
C28_Witness ==
    /\ trace.created
    /\ trace.createdFrom = "InvalidatedState"
    /\ trace.createResult = "eSuccess"
    /\ Hint = NULL
    /\ hist.createFailures = 1
    /\ hist.invalidatedBy = "present"
    /\ state.tag = "RuntimeState"

(***************************************************************************)
(* The depth buffer of a frame.                                            *)
(***************************************************************************)
\* C29: the depth buffer a frame records with, and every submission the queue
\* holds, has the extent of the swapchain image acquired for that frame.
C29_DepthBufferHasFrameExtent ==
    /\ app_hist.recorded # <<>> =>
          current(render_resources).depth_buffer.extent = hist.lastFrameExtent
    /\ \A k \in 1..Len(submissions) :
          submissions[k].depth_buffer.extent = submissions[k].extent

\* a frame submitted at 1024x768 after the surface was resized from 800x600 and
\* the frame's acquire went through a soft failure
C29_Witness ==
    /\ Submitted
    /\ hist.softFailedInCall
    /\ hist.lastFrameExtent = <<1024, 768>>
    /\ app_hist.rebuilt = <<initial_size, initial_size, initial_size>>
    /\ submissions # <<>>
    /\ submissions[Len(submissions)].depth_buffer.extent = <<1024, 768>>

(***************************************************************************)
(* The signal semaphore across the retries of one acquire_next.            *)
(***************************************************************************)
\* C30: whenever a running acquire_next is about to hand the caller's semaphore
\* to a native acquire, no earlier native acquire of the same call has
\* scheduled a signal on it.
C30_NoAcquireWhileSignalOutstanding ==
    (pc = "acquireNextImage" /\ semaphore # <<>>) => ~hist.signalScheduled

====
